---- MODULE Spec2Model ----
(***************************************************************************)
(* Array operations of the Espruino interpreter (src/src/jswrap_array.c).  *)
(*                                                                         *)
(* An array container is modelled by its child list: the sequence of its   *)
(* index bindings in link order, each binding a record [idx, val].  The    *)
(* length of an array is derived from its bindings, never stored.          *)
(* A JsVar pointer that is 0 (no value / undefined) is Null; the integers  *)
(* bound in arrays, 0 among them, stand for themselves, so Null is -1.     *)
(***************************************************************************)
EXTENDS Integers, Sequences, FiniteSets, TLC

\* ------------------------------------------------------------------ bounds
\* Indices of the receivers drawn in Init are 0..MaxLen-1.
MaxLen == 4
\* Scalar values bound in the receivers drawn in Init are 1..MaxVal.
MaxVal == 3
\* Largest number of arguments of a concat call.
MaxArgs == 2
\* Number of optional element parameters of splice (element1..element6).
NumElements == 6

VARIABLES
  arr,          \* child list of the receiver array
  ret,          \* what the last call returned
  call,         \* the last call: operation, arguments, receiver before it
  pc,           \* "idle", "sort" (inside jswrap_array_sort) or "done"
  stack,        \* activation records of _jswrap_array_sort, innermost last
  interrupted,  \* the cooperative-interrupt flag read by jspIsInterrupted()
  err,          \* the interpreter's error slot (set by jsError)
  cblog,        \* the calls made to function arguments during the call, in order
  locks,        \* locks and iterators the call has taken and not yet released,
                \* the lock on the node it returns apart
  seen,         \* a loop test of sort has read the interrupt flag as set
  hist,         \* the calls made before this one on the same array
  videoLoaded,           \* bool videoLoaded
  videoFile,             \* the file handle videoFile: "open" or "closed"
  videoStreamId,         \* kind of the current stream
  videoStreamLen,        \* length of the current stream
  videoStreamRemaining,  \* length left to read in the current stream
  videoStreamBufferLen,  \* length of stream in the current buffer
  bOffset,               \* b - videoBuffer: offset of the decoder's read pointer
  endBuffer,             \* offset of the frame's endBuffer in videoBuffer
  requested,             \* bytes the latest read asked to have in videoBuffer
  events,                \* the events queued on the Pip object, oldest first
  unloads,               \* how many times videoLoaded went from true to false
  pip,                   \* the root scope has a Pip object
  vpc                    \* position inside videoStart or videoFrame, or "idle"

arrayVars == <<arr, ret, call, pc, stack, interrupted, cblog, locks, seen, hist>>
videoVars == <<videoLoaded, videoFile, videoStreamId, videoStreamLen,
               videoStreamRemaining, videoStreamBufferLen, bOffset, endBuffer,
               requested, events, unloads, pip, vpc>>
vars == <<arr, ret, call, pc, stack, interrupted, err, cblog, locks, seen, hist,
          videoLoaded, videoFile, videoStreamId, videoStreamLen,
          videoStreamRemaining, videoStreamBufferLen, bOffset, endBuffer,
          requested, events, unloads, pip, vpc>>

\* ----------------------------------------------------------------- values
Null == 0 - 1
Values == 1..MaxVal

Min(a, b) == IF a < b THEN a ELSE b
Max(a, b) == IF a > b THEN a ELSE b

Binding(i, v) == [idx |-> i, val |-> v]

\* The child list holding, in ascending index order, the bindings of f
\* (a function from 0..n-1 to Values \cup {Null}; Null marks a hole).
RECURSIVE ChildList(_, _)
ChildList(f, n) ==
  IF n = 0 THEN <<>>
  ELSE LET rest == ChildList(f, n - 1)
       IN  IF f[n - 1] = Null THEN rest ELSE Append(rest, Binding(n - 1, f[n - 1]))

\* Every receiver Init may draw: dense and sparse arrays over 0..MaxLen-1.
Arrays == { ChildList(f, MaxLen) : f \in [0..(MaxLen - 1) -> Values \cup {Null}] }

\* The values of a child list, in link order.
Vals(a) == [i \in 1..Len(a) |-> a[i].val]
\* The indices of a child list, in link order.
Idxs(a) == [i \in 1..Len(a) |-> a[i].idx]
\* The array with values s at indices 0..Len(s)-1.
DenseOf(s) == [i \in 1..Len(s) |-> Binding(i - 1, s[i])]
\* a has no holes: its bindings are at 0, 1, ..., Len(a)-1.
NoHoles(a) == \A i \in 1..Len(a) : a[i].idx = i - 1

NoValue == [kind |-> "none"]
ArrayResult(a) == [kind |-> "array", a |-> a]

\* ------------------------------------------------- container primitives
\* jsvGetArrayLength: one more than the highest bound index, 0 when empty.
ArrayLength(a) ==
  IF a = <<>> THEN 0
  ELSE 1 + (CHOOSE m \in {a[i].idx : i \in 1..Len(a)} :
              \A i \in 1..Len(a) : a[i].idx <= m)

\* jsvArrayPush: bind v at index length, as the last child.
ArrayPush(a, v) == Append(a, Binding(ArrayLength(a), v))

\* jsvRemoveChild of the binding at position p of the child list.
RemoveChild(a, p) == SubSeq(a, 1, p - 1) \o SubSeq(a, p + 1, Len(a))

\* jsvArrayInsertBefore(arr, beforeIndex, element), beforeIndex the binding at
\* position p (p > Len(a): no binding, the element is pushed).  The new
\* binding takes the previous sibling's index plus one, or 0 as first child.
ArrayInsertBefore(a, p, v) ==
  IF p <= Len(a)
  THEN SubSeq(a, 1, p - 1)
       \o <<Binding(IF p > 1 THEN a[p - 1].idx + 1 ELSE 0, v)>>
       \o SubSeq(a, p, Len(a))
  ELSE ArrayPush(a, v)

\* jsvArrayGetLast then jsvSkipNameAndUnLock: the value of the last binding.
GetLast(a) == IF a = <<>> THEN Null ELSE a[Len(a)].val

\* ------------------------------------------------------------------ splice
\* An integer argument, or one that is not an integer (jsvIsInt fails).
IntArg(n) == [isInt |-> TRUE, n |-> n]
NotIntArg == [isInt |-> FALSE, n |-> 0]

\* The i-th item passed to splice: distinct from each other and from Values.
Item(i) == MaxLen + MaxVal + i
\* The element parameters of a call passing k items: element1..elementk are
\* set, the rest are 0.
Elements(k) == [i \in 1..NumElements |-> IF i <= k THEN Item(i) ELSE Null]
\* The items a call passes, in call order.
ItemsOf(elements) == SelectSeq(elements, LAMBDA e : e # Null)

\* index normalised: negative counts back from len, then clamped to [0, len].
SpliceIndex(index, len) ==
  LET i1 == IF index < 0 THEN index + len ELSE index
      i2 == IF i1 < 0 THEN 0 ELSE i1
  IN  IF i2 > len THEN len ELSE i2

\* howMany: len when howManyVar is no integer, then capped at len - index.
SpliceHowMany(howManyVar, len, index) ==
  LET h == IF howManyVar.isInt THEN howManyVar.n ELSE len
  IN  IF h > len - index THEN len - index ELSE h

\* newItems: the number of element parameters that are set.
SpliceNewItems(elements) == Cardinality({i \in 1..NumElements : elements[i] # Null})

SpliceShiftSwapped(newItems, howMany) == howMany - newItems
\* shift = newItems - howMany
SpliceShift(newItems, howMany) == newItems - howMany

\* The first loop: from position p of the child list, bindings below index
\* are passed over, bindings in [index, index+howMany) are pushed on result
\* and removed, and the loop stops (needToAdd) at the first binding beyond.
\* Yields the receiver, the result and the iterator's position.
RECURSIVE SpliceScan(_, _, _, _, _)
SpliceScan(a, p, index, howMany, result) ==
  IF p > Len(a) THEN [a |-> a, result |-> result, p |-> p]
  ELSE LET idx == a[p].idx
       IN  IF idx < index THEN SpliceScan(a, p + 1, index, howMany, result)
           ELSE IF idx < index + howMany
                THEN SpliceScan(RemoveChild(a, p), p, index, howMany,
                                ArrayPush(result, a[p].val))
                ELSE [a |-> a, result |-> result, p |-> p]

\* The inserts: element e..element6 that are set go before the binding at
\* position p (beforeIndex), which moves on by one for each; with no binding
\* under the iterator they are pushed and the iterator stays at the end.
RECURSIVE SpliceInsert(_, _, _, _)
SpliceInsert(a, p, elements, e) ==
  IF e > NumElements THEN [a |-> a, p |-> p]
  ELSE IF elements[e] = Null THEN SpliceInsert(a, p, elements, e + 1)
  ELSE LET a2 == ArrayInsertBefore(a, p, elements[e])
       IN  SpliceInsert(a2, IF p <= Len(a) THEN p + 1 ELSE Len(a2) + 1, elements, e + 1)

\* The last loop: every binding from the iterator's position on is renumbered.
SpliceRenumberAfter(a, p, shift) ==
  [i \in 1..Len(a) |-> IF i > p THEN Binding(a[i].idx + shift, a[i].val) ELSE a[i]]

SpliceRenumber(a, p, shift) ==
  [i \in 1..Len(a) |-> IF i >= p THEN Binding(a[i].idx + shift, a[i].val) ELSE a[i]]

\* jswrap_array_splice: the receiver afterwards and the returned array.
Splice(parent, index0, howManyVar, elements) ==
  LET len      == ArrayLength(parent)
      index    == SpliceIndex(index0, len)
      howMany  == SpliceHowMany(howManyVar, len, index)
      newItems == SpliceNewItems(elements)
      shift    == SpliceShift(newItems, howMany)
      scan     == SpliceScan(parent, 1, index, howMany, <<>>)
      ins      == SpliceInsert(scan.a, scan.p, elements, 1)
  IN  [arr |-> SpliceRenumber(ins.a, ins.p, shift), result |-> scan.result]

\* ------------------------------------------------------------------- slice
\* An argument that is given (an integer) or undefined.
UndefArg == [undef |-> TRUE, n |-> 0]
GivenArg(n) == [undef |-> FALSE, n |-> n]

SliceClampNoNegative(v, len) == IF v < 0 THEN 0 ELSE Min(v, len)
\* start and end normalised: negative counts back from len; clamped to [0, len].
SliceClamp(v, len) == IF v < 0 THEN Max(len + v, 0) ELSE Min(v, len)

\* The loop: bindings whose index is below k are passed over; while k < final
\* the binding under the iterator is pushed and k counts up; else isDone.
RECURSIVE SliceScan(_, _, _, _, _)
SliceScan(a, p, k, final, array) ==
  IF p > Len(a) THEN array
  ELSE IF a[p].idx < k THEN SliceScan(a, p + 1, k, final, array)
  ELSE IF k < final THEN SliceScan(a, p + 1, k + 1, final, ArrayPush(array, a[p].val))
  ELSE array

\* jswrap_array_slice: the returned array.
Slice(parent, startVar, endVar) ==
  LET len   == ArrayLength(parent)
      start == IF startVar.undef THEN 0 ELSE startVar.n
      end   == IF endVar.undef THEN len ELSE endVar.n
      k     == SliceClamp(start, len)
      final == SliceClamp(end, len)
  IN  SliceScan(parent, 1, k, final, <<>>)

\* ------------------------------------------------------------------ concat
\* A value passed to concat: an array (with its child list) or a scalar.
ArrayArg(a) == [isArray |-> TRUE, elems |-> a, val |-> Null]
ScalarArg(v) == [isArray |-> FALSE, elems |-> <<>>, val |-> v]

\* Push the elements of child list a from position p on.
RECURSIVE PushAll(_, _, _)
PushAll(result, a, p) ==
  IF p > Len(a) THEN result ELSE PushAll(ArrayPush(result, a[p].val), a, p + 1)

\* The loop over source: the receiver first, then args[j], args[j+1], ...
\* For a source that is an array the inner iterator runs over parent.
RECURSIVE ConcatLoop(_, _, _, _, _)
ConcatLoop(parent, args, j, source, result) ==
  LET r2 == IF source.isArray THEN PushAll(result, parent, 1)
            ELSE ArrayPush(result, source.val)
  IN  IF j <= Len(args) THEN ConcatLoop(parent, args, j + 1, args[j], r2) ELSE r2

\* jswrap_array_concat: the returned array.
Concat(parent, args) == ConcatLoop(parent, args, 1, ArrayArg(parent), <<>>)

\* ------------------------------------------------------------- constructor
\* A scalar that is not an integer (a string), coded above every integer the
\* model binds.
NotInteger == MaxLen + MaxVal + NumElements + 1
IsInt(v) == v # Null /\ v # NotInteger

\* jsvAddName: the binding is linked where its index keeps the child list
\* ascending.
AddName(a, name) ==
  SelectSeq(a, LAMBDA b : b.idx < name.idx) \o <<name>> \o
  SelectSeq(a, LAMBDA b : b.idx >= name.idx)

\* Which allocation of a call is the first to fail: 0 is none, f > 0 means
\* the f-th allocation and every later one return 0.
AllocFails(alloc, fail) == fail # 0 /\ alloc >= fail

\* jswrap_array_constructor(args).  With one integer argument count > 0 a new
\* array gets the single binding count-1, which has no value; every other
\* argument list, count = 0 among them, returns args itself.  leaked counts
\* the locks still held at the return.
Constructor(args, fail) ==
  LET firstArg == GetLast(args)
  IN  IF ArrayLength(args) = 1 /\ IsInt(firstArg) /\ firstArg >= 0 /\ firstArg > 0
      THEN IF AllocFails(1, fail) THEN [ret |-> NoValue, leaked |-> 1]
           ELSE IF AllocFails(2, fail) THEN [ret |-> ArrayResult(<<>>), leaked |-> 0]
           ELSE [ret |-> ArrayResult(AddName(<<>>, Binding(firstArg - 1, Null))),
                 leaked |-> 0]
      ELSE [ret |-> ArrayResult(args), leaked |-> 0]

\* -------------------------------------------------------- map and forEach
\* The function values map and forEach are called with, named by what they
\* return for (value, index); Null is no value.  jspeFunctionCall applies
\* them.
Functions == {"value", "index", "nothing", "odd"}
CallFn(fn, value, index) ==
  CASE fn = "value" -> value
    [] fn = "index" -> index
    [] fn = "odd"   -> IF index # Null /\ index % 2 = 1 THEN value ELSE Null
    [] OTHER        -> Null

\* jsvIsFunction, on the function values of map and forEach and on the
\* comparators of sort.
IsFunctionAny(f) == TRUE

IsFunction(f) == f \in Functions \/ f \in {"asc", "desc", "key", "zero"}

\* What funcVar and thisVar can be.
FuncVars == Functions \cup {"notFunction"}
ThisVars == {"undefined", "object", "number"}

\* The loop over the children of parent.  A binding without a value has
\* firstChild = 0 and jsvLock(0) is not defined: the callback then gets junk.
\* alloc numbers the next allocation: the index argument, then the name of
\* the new binding when the callback returned a value and isMap.
RECURSIVE MapLoop(_, _, _, _, _, _, _, _, _)
MapLoop(parent, p, fn, isMap, fail, junk, alloc, array, log) ==
  IF p > Len(parent) THEN [array |-> array, log |-> log]
  ELSE LET child == parent[p]
           value == IF child.val = Null THEN junk ELSE child.val
           index == IF AllocFails(alloc, fail) THEN Null ELSE child.idx
           mapped == CallFn(fn, value, index)
           named == mapped # Null /\ isMap
           array1 == IF named /\ ~AllocFails(alloc + 1, fail)
                     THEN AddName(array, Binding(child.idx, mapped))
                     ELSE array
       IN  MapLoop(parent, p + 1, fn, isMap, fail, junk,
                   IF named THEN alloc + 2 ELSE alloc + 1,
                   array1, Append(log, <<value, index, parent>>))

MapOrForEachDense(parent, funcVar, thisVar, isMap, fail, junk) ==
  IF ~IsFunction(funcVar)
  THEN [ret |-> NoValue, err |-> TRUE, log |-> <<>>]
  ELSE IF thisVar # "undefined" /\ thisVar # "object"
  THEN [ret |-> NoValue, err |-> TRUE, log |-> <<>>]
  ELSE IF isMap /\ AllocFails(1, fail)
  THEN [ret |-> NoValue, err |-> FALSE, log |-> <<>>]
  ELSE LET r == MapLoop(parent, 1, funcVar, isMap, fail, junk,
                        IF isMap THEN 2 ELSE 1, <<>>, <<>>)
       IN  [ret |-> IF isMap THEN ArrayResult(DenseOf(Vals(r.array))) ELSE NoValue,
            err |-> FALSE, log |-> r.log]

\* _jswrap_array_map_or_forEach(parent, funcVar, thisVar, isMap)
MapOrForEach(parent, funcVar, thisVar, isMap, fail, junk) ==
  IF ~IsFunction(funcVar)
  THEN [ret |-> NoValue, err |-> TRUE, log |-> <<>>]
  ELSE IF thisVar # "undefined" /\ thisVar # "object"
  THEN [ret |-> NoValue, err |-> TRUE, log |-> <<>>]
  ELSE IF isMap /\ AllocFails(1, fail)
  THEN [ret |-> NoValue, err |-> FALSE, log |-> <<>>]
  ELSE LET r == MapLoop(parent, 1, funcVar, isMap, fail, junk,
                        IF isMap THEN 2 ELSE 1, <<>>, <<>>)
       IN  [ret |-> IF isMap THEN ArrayResult(r.array) ELSE NoValue,
            err |-> FALSE, log |-> r.log]

\* ------------------------------------------------------------ push and pop
IntResult(n) == [kind |-> "int", n |-> n]
ValueResult(v) == IF v = Null THEN NoValue ELSE [kind |-> "value", v |-> v]

RECURSIVE PushLoopBackwards(_, _, _, _)
PushLoopBackwards(parent, args, j, len) ==
  IF j > Len(args) THEN [arr |-> parent, len |-> len]
  ELSE LET pushed == ArrayPush(parent, args[Len(args) + 1 - j])
       IN  PushLoopBackwards(pushed, args, j + 1, ArrayLength(pushed))

\* The loop of jswrap_array_push: len is what the last jsvArrayPush returned,
\* the new length.
RECURSIVE PushLoop(_, _, _, _)
PushLoop(parent, args, j, len) ==
  IF j > Len(args) THEN [arr |-> parent, len |-> len]
  ELSE LET pushed == ArrayPush(parent, args[j])
       IN  PushLoop(pushed, args, j + 1, ArrayLength(pushed))

PushNoFallback(parent, args) ==
  LET r == PushLoop(parent, args, 1, 0 - 1)
  IN  [arr |-> r.arr, ret |-> IntResult(r.len)]

\* jswrap_array_push(parent, args)
Push(parent, args) ==
  LET r == PushLoop(parent, args, 1, 0 - 1)
  IN  [arr |-> r.arr,
       ret |-> IntResult(IF r.len < 0 THEN ArrayLength(parent) ELSE r.len)]

\* jsvArrayPop(parent): the binding with the highest index is removed and its
\* value returned; no value if the array is empty.
ArrayPop(parent) ==
  IF parent = <<>> THEN [arr |-> parent, ret |-> NoValue]
  ELSE [arr |-> RemoveChild(parent, Len(parent)),
        ret |-> ValueResult(parent[Len(parent)].val)]

\* -------------------------------------------------------------------- sort
\* compareFn: "none" (undefined) or a comparison function.  The functions
\* drawn are deterministic total preorders returning an integer: ascending,
\* descending, by the key v \div 2 (so that distinct values tie), all equal.
Comparators == {"none", "asc", "desc", "key", "zero"}
CompareFn(cmp, a, b) ==
  CASE cmp = "asc"  -> a - b
    [] cmp = "desc" -> b - a
    [] cmp = "key"  -> (a \div 2) - (b \div 2)
    [] OTHER        -> 0

SortLeqReversed(a, b, cmp) == IF cmp # "none" THEN CompareFn(cmp, a, b) > 0 ELSE a >= b
\* _jswrap_array_sort_leq: r < 0 with a compareFn, else a <= b.
SortLeq(a, b, cmp) == IF cmp # "none" THEN CompareFn(cmp, a, b) < 0 ELSE a <= b

\* jsvIteratorSetValue at position p of the child list.
SetValue(a, p, v) == [a EXCEPT ![p] = Binding(a[p].idx, v)]
\* jsvIteratorGetValue at position p (0 when the iterator has no element).
GetValue(a, p) == IF p \in 1..Len(a) THEN a[p].val ELSE Null

SortMoveBehindSwap(a, pivot, it, pivotValue, itValue) ==
  SetValue(SetValue(a, pivot, itValue), it, pivotValue)

SortMoveBehindNoRestore(a, pivot, it, pivotValue, itValue) ==
  LET a1 == SetValue(a, pivot, itValue)
  IN  SetValue(a1, it, GetValue(a1, pivot + 1))
\* The three writes of a low step: the pivot's slot takes itValue, the slot
\* under it takes the value of the slot after the pivot, and that slot takes
\* pivotValue.
SortMoveBehind(a, pivot, it, pivotValue, itValue) ==
  LET a1 == SetValue(a, pivot, itValue)
      a2 == SetValue(a1, it, GetValue(a1, pivot + 1))
  IN  SetValue(a2, pivot + 1, pivotValue)

\* An activation of _jswrap_array_sort(head, n, compareFn) at its start.
Frame(head, n) ==
  [at |-> "entry", head |-> head, n |-> n, pivot |-> head, pivotValue |-> Null,
   it |-> head, itValue |-> Null, leq |-> FALSE, nlo |-> 0, nhigh |-> 0]

Top == stack[Len(stack)]
SetTop(f) == [stack EXCEPT ![Len(stack)] = f]
Pop == SubSeq(stack, 1, Len(stack) - 1)

\* ------------------------------------------------------------ video player
\* sizeof(videoBuffer).
VIDEO_BUFFER_SIZE == 40960

\* Most events the model lets the Pip object have queued before a new call.
MaxEvents == 2

\* Slack the decoder leaves at the end of the buffer while more of the stream
\* is still in the file.
RefillMargin == 260

\* Longest RLE command: the escape pair, up to 255 copied bytes and a pad byte.
MaxCommand == 258

\* The stream kinds videoFrame tells apart: AVI_STREAM_AUDIO, AVI_STREAM_VIDEO
\* and every other 16-bit id.
StreamIds == {"audio", "video", "other"}

\* Stream lengths a file header can announce, chosen around the sizes where
\* videoFrame changes path.  All are below 2^31 - 8, where no sum or
\* difference videoFrame computes leaves the range of uint32_t.
StreamLens ==
  {0, VIDEO_BUFFER_SIZE - 8, VIDEO_BUFFER_SIZE - 7, VIDEO_BUFFER_SIZE,
   VIDEO_BUFFER_SIZE + 1, 2 * VIDEO_BUFFER_SIZE + RefillMargin}

\* jswrap_pb_sendEvent: the event is queued only if the Pip object exists.
SendEvent(q, eventName) == IF pip THEN Append(q, eventName) ELSE q

\* (b - videoBuffer) & ~7
AlignDown(x) == x - (x % 8)

\* Globals before the first call; p tells whether the Pip object exists.
VideoInit(p) ==
  /\ videoLoaded = FALSE
  /\ videoFile = "closed"
  /\ videoStreamId = "other"
  /\ videoStreamLen = 0
  /\ videoStreamRemaining = 0
  /\ videoStreamBufferLen = 0
  /\ bOffset = 0
  /\ endBuffer = 0
  /\ requested = 0
  /\ events = <<>>
  /\ unloads = 0
  /\ pip = p
  /\ vpc = "idle"

\* -------------------------------------------------------------------- Init
Init ==
  /\ arr \in Arrays
  /\ ret = NoValue
  /\ call = [op |-> "none"]
  /\ pc = "idle"
  /\ stack = <<>>
  /\ interrupted = FALSE
  /\ err = FALSE
  /\ cblog = <<>>
  /\ locks = 0
  /\ seen = FALSE
  /\ hist = <<>>
  /\ VideoInit(TRUE)

\* splice never reads a value it moves, so its receivers are drawn with a
\* value that tells where each binding came from: index i holds i + 1.
SpliceArrays ==
  { ChildList([i \in 0..(MaxLen - 1) |-> IF i \in S THEN i + 1 ELSE Null], MaxLen) :
      S \in SUBSET (0..(MaxLen - 1)) }

InitSplice ==
  /\ arr \in SpliceArrays
  /\ ret = NoValue
  /\ call = [op |-> "none"]
  /\ pc = "idle"
  /\ stack = <<>>
  /\ interrupted = FALSE
  /\ err = FALSE
  /\ cblog = <<>>
  /\ locks = 0
  /\ seen = FALSE
  /\ hist = <<>>
  /\ VideoInit(TRUE)

\* The script has no array yet: the first call is the constructor.
InitNew ==
  /\ arr = <<>>
  /\ ret = NoValue
  /\ call = [op |-> "none"]
  /\ pc = "idle"
  /\ stack = <<>>
  /\ interrupted = FALSE
  /\ err = FALSE
  /\ cblog = <<>>
  /\ locks = 0
  /\ seen = FALSE
  /\ hist = <<>>
  /\ VideoInit(TRUE)

\* The video player alone: no array call is in progress.
InitVideo ==
  /\ arr = <<>>
  /\ ret = NoValue
  /\ call = [op |-> "none"]
  /\ pc = "idle"
  /\ stack = <<>>
  /\ interrupted = FALSE
  /\ err = FALSE
  /\ cblog = <<>>
  /\ locks = 0
  /\ seen = FALSE
  /\ hist = <<>>
  /\ \E p \in BOOLEAN : VideoInit(p)

\* ----------------------------------------------------------------- actions
\* Array(args...): up to MaxArgs arguments, each an integer or not.
CtorValues == (0..MaxLen) \cup {NotInteger}
CtorArgs == UNION {[1..n -> CtorValues] : n \in 0..MaxArgs}

DoConstructor ==
  /\ pc = "idle" /\ hist = <<>>
  /\ \E s \in CtorArgs, fail \in 0..2 :
       LET r == Constructor(DenseOf(s), fail)
       IN  /\ ret' = r.ret
           /\ locks' = locks + r.leaked
           /\ call' = [op |-> "constructor", pre |-> arr, args |-> DenseOf(s),
                       fail |-> fail]
  /\ pc' = "done"
  /\ UNCHANGED <<arr, stack, interrupted, err, cblog, seen, hist>>
  /\ UNCHANGED videoVars

\* parent.splice(index, howMany, element1, ..., elementk)
DoSplice ==
  /\ pc = "idle"
  /\ \E index \in (0 - MaxLen - 1)..(MaxLen + 1),
        howManyVar \in {NotIntArg} \cup {IntArg(h) : h \in (0 - 2)..(MaxLen + 1)},
        k \in 0..NumElements :
       LET r == Splice(arr, index, howManyVar, Elements(k))
       IN  /\ arr' = r.arr
           /\ ret' = ArrayResult(r.result)
           /\ call' = [op |-> "splice", pre |-> arr, index |-> index,
                       howMany |-> howManyVar, elements |-> Elements(k)]
  /\ pc' = "done"
  /\ UNCHANGED <<stack, interrupted, err, cblog, locks, seen, hist>>
  /\ UNCHANGED videoVars

\* parent.slice(start, end)
DoSlice ==
  /\ pc = "idle"
  /\ \E startVar \in {UndefArg} \cup {GivenArg(n) : n \in (0 - MaxLen - 1)..(MaxLen + 1)},
        endVar \in {UndefArg} \cup {GivenArg(n) : n \in (0 - MaxLen - 1)..(MaxLen + 1)} :
       /\ ret' = ArrayResult(Slice(arr, startVar, endVar))
       /\ call' = [op |-> "slice", pre |-> arr, start |-> startVar, end |-> endVar]
  /\ pc' = "done"
  /\ UNCHANGED <<arr, stack, interrupted, err, cblog, locks, seen, hist>>
  /\ UNCHANGED videoVars

\* The values concat is called with: scalars and short dense arrays.
ConcatArgValues ==
  {ScalarArg(v) : v \in Values}
  \cup {ArrayArg(<<>>)}
  \cup {ArrayArg(DenseOf(<<v>>)) : v \in Values}
  \cup {ArrayArg(DenseOf(<<v, w>>)) : v \in Values, w \in Values}
ConcatArgs == UNION {[1..n -> ConcatArgValues] : n \in 0..MaxArgs}

\* parent.concat(args...)
DoConcat ==
  /\ pc = "idle"
  /\ \E args \in ConcatArgs :
       /\ ret' = ArrayResult(Concat(arr, args))
       /\ call' = [op |-> "concat", pre |-> arr, args |-> args]
  /\ pc' = "done"
  /\ UNCHANGED <<arr, stack, interrupted, err, cblog, locks, seen, hist>>
  /\ UNCHANGED videoVars

\* The script calls a method on the array the constructor returned.
AdoptNew ==
  /\ pc = "done" /\ call.op = "constructor" /\ ret.kind = "array"
  /\ arr' = ret.a
  /\ hist' = Append(hist, [call |-> call, ret |-> ret])
  /\ ret' = NoValue
  /\ call' = [op |-> "none"]
  /\ pc' = "idle"
  /\ UNCHANGED <<stack, interrupted, err, cblog, locks, seen>>
  /\ UNCHANGED videoVars

\* Which allocation fails in a call of map or forEach, and what a value
\* read through firstChild = 0 can be.
MapFails == 0..3
Junk == Values \cup {Null}

\* array.map(funcVar, thisVar)
DoMap ==
  /\ pc = "idle"
  /\ \E funcVar \in FuncVars, thisVar \in ThisVars, fail \in MapFails, junk \in Junk :
       LET r == MapOrForEach(arr, funcVar, thisVar, TRUE, fail, junk)
       IN  /\ ret' = r.ret
           /\ err' = r.err
           /\ cblog' = r.log
           /\ call' = [op |-> "map", pre |-> arr, fn |-> funcVar, this |-> thisVar,
                       fail |-> fail]
  /\ pc' = "done"
  /\ UNCHANGED <<arr, stack, interrupted, locks, seen, hist>>
  /\ UNCHANGED videoVars

\* array.forEach(funcVar, thisVar)
DoForEach ==
  /\ pc = "idle"
  /\ \E funcVar \in FuncVars, thisVar \in ThisVars, fail \in MapFails, junk \in Junk :
       LET r == MapOrForEach(arr, funcVar, thisVar, FALSE, fail, junk)
       IN  /\ ret' = r.ret
           /\ err' = r.err
           /\ cblog' = r.log
           /\ call' = [op |-> "forEach", pre |-> arr, fn |-> funcVar, this |-> thisVar,
                       fail |-> fail]
  /\ pc' = "done"
  /\ UNCHANGED <<arr, stack, interrupted, locks, seen, hist>>
  /\ UNCHANGED videoVars

\* The values push is called with; Null is an argument that is undefined.
PushValues == Values \cup {Null}
PushArgs == UNION {[1..n -> PushValues] : n \in 0..MaxArgs}

\* array.push(args...)
DoPush ==
  /\ pc = "idle" /\ hist = <<>>
  /\ \E args \in PushArgs :
       LET r == Push(arr, args)
       IN  /\ arr' = r.arr
           /\ ret' = r.ret
           /\ call' = [op |-> "push", pre |-> arr, args |-> args]
  /\ pc' = "done"
  /\ UNCHANGED <<stack, interrupted, err, cblog, locks, seen, hist>>
  /\ UNCHANGED videoVars

\* array.pop()
DoPop ==
  /\ pc = "idle"
  /\ LET r == ArrayPop(arr)
     IN  /\ arr' = r.arr
         /\ ret' = r.ret
  /\ call' = [op |-> "pop", pre |-> arr]
  /\ pc' = "done"
  /\ UNCHANGED <<stack, interrupted, err, cblog, locks, seen, hist>>
  /\ UNCHANGED videoVars

\* After a push of n values the script goes on with the same array, for up
\* to n calls of pop.
Again ==
  /\ pc = "done" /\ call.op \in {"push", "pop"}
  /\ LET h == Append(hist, [call |-> call, ret |-> ret])
     IN  /\ h[1].call.op = "push"
         /\ Len(h) <= Len(h[1].call.args)
         /\ hist' = h
  /\ ret' = NoValue
  /\ call' = [op |-> "none"]
  /\ pc' = "idle"
  /\ UNCHANGED <<arr, stack, interrupted, err, cblog, locks, seen>>
  /\ UNCHANGED videoVars

\* What compareFn can be: undefined ("none"), a function, or neither.
CompareVars == Comparators \cup {"notFunction"}

SortCallCountsHoles ==
  /\ pc = "idle"
  /\ \E cmp \in CompareVars :
       /\ call' = [op |-> "sort", pre |-> arr, cmp |-> cmp]
       /\ IF cmp # "none" /\ ~IsFunction(cmp)
          THEN /\ err' = TRUE
               /\ ret' = NoValue
               /\ pc' = "done"
               /\ UNCHANGED <<stack, locks>>
          ELSE /\ stack' = <<Frame(1, ArrayLength(arr))>>
               /\ pc' = "sort"
               /\ locks' = locks + 1
               /\ UNCHANGED <<err, ret>>
  /\ UNCHANGED <<arr, interrupted, cblog, seen, hist>>
  /\ UNCHANGED videoVars

\* array.sort(compareFn): a compareFn that is neither undefined nor a
\* function is an error.  Otherwise the elements are counted and the
\* outermost _jswrap_array_sort is called on an iterator at the first binding.
SortCall ==
  /\ pc = "idle"
  /\ \E cmp \in CompareVars :
       /\ call' = [op |-> "sort", pre |-> arr, cmp |-> cmp]
       /\ IF cmp # "none" /\ ~IsFunction(cmp)
          THEN /\ err' = TRUE
               /\ ret' = NoValue
               /\ pc' = "done"
               /\ UNCHANGED <<stack, locks>>
          ELSE /\ stack' = <<Frame(1, Len(arr))>>
               /\ pc' = "sort"
               /\ locks' = locks + 1
               /\ UNCHANGED <<err, ret>>
  /\ UNCHANGED <<arr, interrupted, cblog, seen, hist>>
  /\ UNCHANGED videoVars

SortEnterLateBase ==
  /\ pc = "sort" /\ stack # <<>> /\ Top.at = "entry"
  /\ stack' = IF Top.n < 1 THEN Pop
              ELSE SetTop([Top EXCEPT !.at = "test",
                                      !.pivot = Top.head,
                                      !.pivotValue = GetValue(arr, Top.head),
                                      !.it = Top.head + 1])
  /\ locks' = IF Top.n < 1 THEN locks ELSE locks + 3
  /\ UNCHANGED <<arr, ret, call, pc, interrupted, err, cblog, seen, hist>>
  /\ UNCHANGED videoVars

\* _jswrap_array_sort begins: n < 2 returns; else pivot and it are cloned
\* from head, pivotValue is read and it moves on by one.
SortEnter ==
  /\ pc = "sort" /\ stack # <<>> /\ Top.at = "entry"
  /\ stack' = IF Top.n < 2 THEN Pop
              ELSE SetTop([Top EXCEPT !.at = "test",
                                      !.pivot = Top.head,
                                      !.pivotValue = GetValue(arr, Top.head),
                                      !.it = Top.head + 1])
  /\ locks' = IF Top.n < 2 THEN locks ELSE locks + 3
  /\ UNCHANGED <<arr, ret, call, pc, interrupted, err, cblog, seen, hist>>
  /\ UNCHANGED videoVars

SortTestNoCheck ==
  /\ pc = "sort" /\ stack # <<>> /\ Top.at = "test"
  /\ LET n1 == Top.n - 1
     IN  /\ stack' = SetTop([Top EXCEPT !.n = n1,
                                        !.at = IF n1 # 0 THEN "compare" ELSE "after"])
         /\ seen' = (seen \/ (n1 # 0 /\ interrupted))
  /\ UNCHANGED <<arr, ret, call, pc, interrupted, err, cblog, locks, hist>>
  /\ UNCHANGED videoVars

\* while (--n && !jspIsInterrupted()): the flag is read when --n is not 0.
SortTest ==
  /\ pc = "sort" /\ stack # <<>> /\ Top.at = "test"
  /\ LET n1 == Top.n - 1
     IN  /\ stack' = SetTop([Top EXCEPT !.n = n1,
                                        !.at = IF n1 # 0 /\ ~interrupted
                                               THEN "compare" ELSE "after"])
         /\ seen' = (seen \/ (n1 # 0 /\ interrupted))
  /\ UNCHANGED <<arr, ret, call, pc, interrupted, err, cblog, locks, hist>>
  /\ UNCHANGED videoVars

\* itValue is read (and locked) and compared with pivotValue; a call to
\* compareFn is logged with its two arguments.  A compareFn that runs
\* while the interrupt flag is set is cut short: what it returns is open.
SortCompare ==
  /\ pc = "sort" /\ stack # <<>> /\ Top.at = "compare"
  /\ LET itValue == GetValue(arr, Top.it)
     IN  \E b \in (IF call.cmp # "none" /\ interrupted THEN BOOLEAN
                   ELSE {SortLeq(itValue, Top.pivotValue, call.cmp)}) :
           /\ stack' = SetTop([Top EXCEPT !.at = "move", !.itValue = itValue, !.leq = b])
           /\ cblog' = IF call.cmp = "none" THEN cblog
                       ELSE Append(cblog, <<itValue, Top.pivotValue>>)
  /\ locks' = locks + 1
  /\ UNCHANGED <<arr, ret, call, pc, interrupted, err, seen, hist>>
  /\ UNCHANGED videoVars

\* The rest of the loop body: a low element moves behind the pivot, a high
\* one stays; itValue is unlocked and it moves on by one.
SortMove ==
  /\ pc = "sort" /\ stack # <<>> /\ Top.at = "move"
  /\ IF Top.leq
     THEN /\ arr' = SortMoveBehind(arr, Top.pivot, Top.it, Top.pivotValue, Top.itValue)
          /\ stack' = SetTop([Top EXCEPT !.at = "test", !.nlo = Top.nlo + 1,
                                         !.pivot = Top.pivot + 1, !.it = Top.it + 1,
                                         !.itValue = Null, !.leq = FALSE])
     ELSE /\ arr' = arr
          /\ stack' = SetTop([Top EXCEPT !.at = "test", !.nhigh = Top.nhigh + 1,
                                         !.it = Top.it + 1,
                                         !.itValue = Null, !.leq = FALSE])
  /\ locks' = locks - 1
  /\ UNCHANGED <<ret, call, pc, interrupted, err, cblog, seen, hist>>
  /\ UNCHANGED videoVars

\* After the loop it is freed and pivotValue unlocked; then return if
\* interrupted (pivot is not freed on that path), else sort the low partition.
SortAfter ==
  /\ pc = "sort" /\ stack # <<>> /\ Top.at = "after"
  /\ stack' = IF interrupted THEN Pop
              ELSE Append(SetTop([Top EXCEPT !.at = "low"]), Frame(Top.head, Top.nlo))
  /\ locks' = locks - 2
  /\ UNCHANGED <<arr, ret, call, pc, interrupted, err, cblog, seen, hist>>
  /\ UNCHANGED videoVars

SortHighNoNext ==
  /\ pc = "sort" /\ stack # <<>> /\ Top.at = "low"
  /\ stack' = Append(SetTop([Top EXCEPT !.at = "high"]), Frame(Top.pivot, Top.nhigh))
  /\ UNCHANGED <<arr, ret, call, pc, interrupted, err, cblog, locks, seen, hist>>
  /\ UNCHANGED videoVars

\* The low partition is done: pivot moves on by one, sort the high partition.
SortHigh ==
  /\ pc = "sort" /\ stack # <<>> /\ Top.at = "low"
  /\ stack' = Append(SetTop([Top EXCEPT !.at = "high", !.pivot = Top.pivot + 1]),
                     Frame(Top.pivot + 1, Top.nhigh))
  /\ UNCHANGED <<arr, ret, call, pc, interrupted, err, cblog, locks, seen, hist>>
  /\ UNCHANGED videoVars

\* The high partition is done: pivot is freed, _jswrap_array_sort returns.
SortLeave ==
  /\ pc = "sort" /\ stack # <<>> /\ Top.at = "high"
  /\ stack' = Pop
  /\ locks' = locks - 1
  /\ UNCHANGED <<arr, ret, call, pc, interrupted, err, cblog, seen, hist>>
  /\ UNCHANGED videoVars

\* The outermost _jswrap_array_sort has returned: its iterator is freed and
\* sort returns the array.
SortReturn ==
  /\ pc = "sort" /\ stack = <<>>
  /\ ret' = ArrayResult(arr)
  /\ pc' = "done"
  /\ locks' = locks - 1
  /\ UNCHANGED <<arr, call, stack, interrupted, err, cblog, seen, hist>>
  /\ UNCHANGED videoVars

\* The interrupt flag is set from outside (a break key) while sort runs.
Interrupt ==
  /\ pc = "sort" /\ ~interrupted
  /\ interrupted' = TRUE
  /\ UNCHANGED <<arr, ret, call, pc, stack, err, cblog, locks, seen, hist>>
  /\ UNCHANGED videoVars

SortNext ==
  \/ SortCall \/ SortEnter \/ SortTest \/ SortCompare \/ SortMove
  \/ SortAfter \/ SortHigh \/ SortLeave \/ SortReturn \/ Interrupt

\* Where the bindings of a are linked: a with every value replaced by 1.
\* No operation reads a value to decide where a binding is linked or what
\* index it gets (sort writes values only, map asks the function), so the
\* indices that call sequences can produce are those produced from shapes.
Shape(a) == [i \in 1..Len(a) |-> Binding(a[i].idx, 1)]

\* The arrays a finished call leaves: its receiver and, if it returned an
\* array, that array.
ArraysLeft == {arr} \cup (IF ret.kind = "array" THEN {ret.a} ELSE {})

\* The script makes its next call on an array the last call left, as long
\* as that array is no longer than MaxLen; the interpreter has cleared the
\* interrupt flag and the error slot by then.
Continue ==
  /\ pc = "done" /\ hist = <<>>
  /\ \E a \in ArraysLeft :
       /\ ArrayLength(a) <= MaxLen
       /\ arr' = Shape(a)
  /\ ret' = NoValue
  /\ call' = [op |-> "none"]
  /\ pc' = "idle"
  /\ interrupted' = FALSE
  /\ err' = FALSE
  /\ cblog' = <<>>
  /\ locks' = 0
  /\ seen' = FALSE
  /\ UNCHANGED <<stack, hist>>
  /\ UNCHANGED videoVars

NextSeq ==
  \/ DoConstructor \/ DoPush \/ DoPop \/ DoSplice \/ SortNext
  \/ DoMap \/ DoSlice \/ DoConcat \/ Continue

\* ----------------------------------------------------- video player calls
\* A new call is made while the Pip object has room for its events.
VideoCallable ==
  /\ pc = "idle" /\ vpc = "idle"
  /\ Len(events) < MaxEvents /\ unloads < MaxEvents

FrameVars == <<videoStreamId, videoStreamLen, videoStreamRemaining,
               videoStreamBufferLen, bOffset, endBuffer, requested>>

\* jswrap_pb_videoStart up to the open: the path is built, the file system
\* initialised and a video that is still loaded is closed.
VideoStart ==
  /\ VideoCallable
  /\ \E pathOk \in BOOLEAN, fsOk \in BOOLEAN :
       IF ~pathOk
         THEN UNCHANGED <<videoLoaded, videoFile, unloads, vpc, err>>
       ELSE IF ~fsOk
         THEN /\ err' = TRUE
              /\ UNCHANGED <<videoLoaded, videoFile, unloads, vpc>>
       ELSE /\ videoLoaded' = FALSE
            /\ videoFile' = "closed"
            /\ unloads' = IF videoLoaded THEN unloads + 1 ELSE unloads
            /\ vpc' = "open"
            /\ UNCHANGED err
  /\ UNCHANGED <<events, pip>>
  /\ UNCHANGED FrameVars
  /\ UNCHANGED arrayVars

\* jswrap_pb_videoStart: f_open / fopen.
VideoOpen ==
  /\ vpc = "open"
  /\ \E openOk \in BOOLEAN :
       IF openOk
         THEN /\ videoLoaded' = TRUE
              /\ videoFile' = "open"
              /\ vpc' = "load"
         ELSE /\ vpc' = "idle"
              /\ UNCHANGED <<videoLoaded, videoFile>>
  /\ UNCHANGED <<events, unloads, pip, err>>
  /\ UNCHANGED FrameVars
  /\ UNCHANGED arrayVars

\* jswrap_pb_videoStop
VideoStopped ==
  /\ videoLoaded' = FALSE
  /\ videoFile' = IF videoLoaded THEN "closed" ELSE videoFile
  /\ unloads' = IF videoLoaded THEN unloads + 1 ELSE unloads
  /\ events' = IF videoLoaded THEN SendEvent(events, "videoStopped") ELSE events

\* jswrap_pb_videoStart after the open: the header is read and parsed.
VideoLoad ==
  /\ vpc = "load"
  /\ \E aviOk \in BOOLEAN, id \in StreamIds, len \in StreamLens :
       IF aviOk
         THEN /\ videoStreamId' = id
              /\ videoStreamLen' = len
              /\ requested' = VIDEO_BUFFER_SIZE
              /\ events' = SendEvent(events, "videoStarted")
              /\ UNCHANGED <<videoLoaded, videoFile, unloads, err>>
         ELSE /\ err' = TRUE
              /\ requested' = VIDEO_BUFFER_SIZE
              /\ VideoStopped
              /\ UNCHANGED <<videoStreamId, videoStreamLen>>
  /\ vpc' = "idle"
  /\ UNCHANGED <<videoStreamRemaining, videoStreamBufferLen, bOffset, endBuffer, pip>>
  /\ UNCHANGED arrayVars

\* Pip.videoStop()
VideoStop ==
  /\ VideoCallable
  /\ VideoStopped
  /\ UNCHANGED <<pip, vpc, err>>
  /\ UNCHANGED FrameVars
  /\ UNCHANGED arrayVars

\* jswrap_pb_kill
VideoKill ==
  /\ pc = "idle" /\ vpc = "idle"
  /\ videoLoaded
  /\ VideoStopped
  /\ UNCHANGED <<pip, vpc, err>>
  /\ UNCHANGED FrameVars
  /\ UNCHANGED arrayVars

\* jswrap_pb_idle with the next frame due: jswrap_pb_videoFrame up to the
\* decoding loop.  The first read asks for videoStreamBufferLen bytes.
VideoIdle ==
  /\ VideoCallable
  /\ videoLoaded
  /\ LET len == videoStreamLen + 8
         big == videoStreamLen > VIDEO_BUFFER_SIZE
         remaining == IF big THEN len - VIDEO_BUFFER_SIZE ELSE 0
         bufferLen == IF big THEN VIDEO_BUFFER_SIZE ELSE len
     IN /\ videoStreamRemaining' = remaining
        /\ videoStreamBufferLen' = bufferLen
        /\ requested' = bufferLen
        /\ bOffset' = 0
        /\ endBuffer' = bufferLen
        /\ IF videoStreamId = "audio"
             THEN /\ IF remaining # 0
                       THEN VideoStopped
                       ELSE UNCHANGED <<videoLoaded, videoFile, unloads, events>>
                  /\ vpc' = "next"
           ELSE IF videoStreamId = "video"
             THEN /\ vpc' = "decode"
                  /\ UNCHANGED <<videoLoaded, videoFile, unloads, events>>
           ELSE /\ VideoStopped
                /\ vpc' = "next"
  /\ UNCHANGED <<videoStreamId, videoStreamLen, pip, err>>
  /\ UNCHANGED arrayVars

\* One round of while (b < endBuffer): commands are decoded up to the end of
\* the buffer, or up to RefillMargin before it while more is in the file (the
\* last command may run up to MaxCommand - 1 bytes past either), and the
\* buffer is refilled.
VideoDecode ==
  /\ vpc = "decode"
  /\ IF bOffset < endBuffer
       THEN /\ UNCHANGED vpc
            /\ \E over \in {0, 1, MaxCommand - 1} :
                 LET nearlyEndOfBuffer ==
                       IF videoStreamRemaining # 0
                         THEN videoStreamBufferLen - RefillMargin ELSE endBuffer
                     b1 == IF bOffset < nearlyEndOfBuffer
                             THEN nearlyEndOfBuffer + over ELSE bOffset
                     amountToShift == AlignDown(b1)
                     leftInStream == videoStreamBufferLen - amountToShift
                     bufferRemaining == VIDEO_BUFFER_SIZE - leftInStream
                     len == Min(videoStreamRemaining, bufferRemaining)
                 IN IF videoStreamRemaining # 0
                      THEN /\ bOffset' = b1 - amountToShift
                           /\ requested' = leftInStream + len
                           /\ videoStreamRemaining' = videoStreamRemaining - len
                           /\ videoStreamBufferLen' = leftInStream + len
                      ELSE /\ bOffset' = b1
                           /\ UNCHANGED <<requested, videoStreamRemaining,
                                          videoStreamBufferLen>>
       ELSE /\ vpc' = "next"
            /\ UNCHANGED <<bOffset, requested, videoStreamRemaining,
                           videoStreamBufferLen>>
  /\ UNCHANGED <<videoLoaded, videoFile, videoStreamId, videoStreamLen, endBuffer,
                 events, unloads, pip, err>>
  /\ UNCHANGED arrayVars

\* jswrap_pb_videoFrame: the id and length of the next stream are the bytes
\* that follow the stream in the buffer, whatever the file holds there.
VideoFrameEnd ==
  /\ vpc = "next"
  /\ \E id \in StreamIds, len \in StreamLens :
       /\ videoStreamId' = id
       /\ videoStreamLen' = len
  /\ vpc' = "idle"
  /\ UNCHANGED <<videoLoaded, videoFile, videoStreamRemaining, videoStreamBufferLen,
                 bOffset, endBuffer, requested, events, unloads, pip, err>>
  /\ UNCHANGED arrayVars

VideoNext ==
  \/ VideoStart \/ VideoOpen \/ VideoLoad \/ VideoStop \/ VideoKill
  \/ VideoIdle \/ VideoDecode \/ VideoFrameEnd

Next ==
  \/ DoConstructor \/ DoPush \/ DoPop \/ DoSplice \/ SortNext
  \/ DoMap \/ DoForEach \/ DoSlice \/ DoConcat
  \/ AdoptNew \/ Again \/ Continue
  \/ VideoNext

\* ---------------------------------------------------------- specifications
Spec == Init /\ [][Next]_vars
SpecSplice == InitSplice /\ [][DoSplice]_vars
SpecSlice == Init /\ [][DoSlice]_vars
SpecConcat == Init /\ [][DoConcat]_vars
SpecSort == Init /\ [][SortNext]_vars
\* The interpreter runs a sort that has begun: a step of the sort that can
\* be taken is taken in the end.
SortStep ==
  \/ SortEnter \/ SortTest \/ SortCompare \/ SortMove
  \/ SortAfter \/ SortHigh \/ SortLeave \/ SortReturn
SpecSortFair == Init /\ [][SortNext]_vars /\ WF_vars(SortStep)
SpecNew == InitNew /\ [][DoConstructor \/ AdoptNew \/ DoMap \/ DoForEach \/ DoSlice]_vars
SpecMap == Init /\ [][DoMap \/ DoForEach]_vars
SpecPush == Init /\ [][DoPush \/ DoPop \/ Again]_vars
SpecSeq == InitNew /\ [][NextSeq]_vars
SpecArgs == Init /\ [][DoMap \/ DoForEach \/ SortNext]_vars
SpecVideo == InitVideo /\ [][VideoNext]_vars

\* ------------------------------------------------------------------ claims
SortDone == pc = "done" /\ call.op = "sort"
SpliceDone == pc = "done" /\ call.op = "splice"
SliceDone == pc = "done" /\ call.op = "slice"
ConcatDone == pc = "done" /\ call.op = "concat"
ConstructorDone == pc = "done" /\ call.op = "constructor"
MapDone == pc = "done" /\ call.op = "map"
ForEachDone == pc = "done" /\ call.op = "forEach"
PushDone == pc = "done" /\ call.op = "push"
PopDone == pc = "done" /\ call.op = "pop"

\* How often v is bound in child list a.
Count(a, v) == Cardinality({i \in 1..Len(a) : a[i].val = v})

\* C1: when sort with no comparator has returned from an array without holes
\* and the interrupt flag was never set, every adjacent pair of values of the
\* array, in ascending index order, satisfies a <= b.
C1_SortedByDefault ==
  (SortDone /\ call.cmp = "none" /\ ~interrupted /\ NoHoles(call.pre))
    => \A i \in 1..(Len(arr) - 1) : arr[i].val <= arr[i + 1].val

C1_Witness ==
  /\ SortDone /\ call.cmp = "none" /\ ~interrupted
  /\ call.pre = DenseOf(<<3, 1, 2>>)
  /\ arr = DenseOf(<<1, 2, 3>>)

\* C2: when sort with a comparator cmp (a deterministic total preorder) has
\* returned from an array without holes and the interrupt flag was never set,
\* every adjacent pair (a, b) of the array satisfies cmp(a, b) <= 0.
C2_SortedByComparator ==
  (SortDone /\ call.cmp # "none" /\ ~interrupted /\ NoHoles(call.pre))
    => \A i \in 1..(Len(arr) - 1) : CompareFn(call.cmp, arr[i].val, arr[i + 1].val) <= 0

C2_Witness ==
  /\ SortDone /\ call.cmp = "key" /\ ~interrupted
  /\ call.pre = DenseOf(<<3, 1, 2>>)
  /\ Vals(arr) = <<1, 3, 2>>

\* C3: when sort returns after the interrupt flag was set during it, every
\* value is bound in the array as often as before the call.
C3_InterruptedPermutation ==
  (SortDone /\ interrupted)
    => /\ Len(arr) = Len(call.pre)
       /\ \A v \in Values : Count(arr, v) = Count(call.pre, v)

\* An interrupted sort that has moved values and left them out of order.
C3_Witness ==
  /\ SortDone /\ interrupted /\ call.cmp = "none"
  /\ call.pre = DenseOf(<<3, 2, 1>>)
  /\ Vals(arr) = <<2, 3, 1>>

\* The call is a splice of a dense array with 0 <= index <= L and
\* 0 <= howMany <= L - index.
SpliceInRange ==
  /\ SpliceDone /\ NoHoles(call.pre)
  /\ call.index >= 0 /\ call.index <= Len(call.pre)
  /\ call.howMany.isInt
  /\ call.howMany.n >= 0 /\ call.howMany.n <= Len(call.pre) - call.index

\* C4: a splice of a dense array A with index and howMany in range returns
\* A[index..index+howMany) at indices 0..howMany-1 and leaves the receiver
\* as A[0..index), the items in call order, A[index+howMany..L), at
\* contiguous indices from 0.
C4_SpliceDense ==
  SpliceInRange =>
    LET A == Vals(call.pre)
        i == call.index
        h == call.howMany.n
    IN  /\ ret = ArrayResult(DenseOf(SubSeq(A, i + 1, i + h)))
        /\ arr = DenseOf(SubSeq(A, 1, i) \o ItemsOf(call.elements)
                         \o SubSeq(A, i + h + 1, Len(A)))

\* [1,2,3].splice(1, 1, a, b) returns [2] and leaves [1, a, b, 3].
C4_Witness ==
  /\ SpliceInRange
  /\ call.pre = DenseOf(<<1, 2, 3>>) /\ call.index = 1 /\ call.howMany.n = 1
  /\ ItemsOf(call.elements) = <<Item(1), Item(2)>>
  /\ ret = ArrayResult(DenseOf(<<2>>))
  /\ arr = DenseOf(<<1, Item(1), Item(2), 3>>)

\* C5: after any splice the receiver's length is its length before, minus
\* the length of the returned array, plus the number of inserted items.
C5_SpliceLength ==
  SpliceDone =>
    ArrayLength(arr) = ArrayLength(call.pre) - ArrayLength(ret.a)
                       + Len(ItemsOf(call.elements))

\* The bindings of the call's receiver that splice retained: those before
\* the normalized index, and those at or after it but for the removed ones
\* (the first Len(ret.a) of them, the ones whose values were returned).
SpliceNormIndex == SpliceIndex(call.index, ArrayLength(call.pre))
RetainedBefore == SelectSeq(call.pre, LAMBDA b : b.idx < SpliceNormIndex)
RetainedAfter ==
  LET tail == SelectSeq(call.pre, LAMBDA b : b.idx >= SpliceNormIndex)
  IN  SubSeq(tail, Len(ret.a) + 1, Len(tail))

\* C6: after a splice every retained binding before the normalized index
\* keeps index and value, and every retained binding at or after it keeps its
\* value and has its index changed by (inserted items - removed elements).
C6_SpliceFrame ==
  SpliceDone =>
    LET k == Len(ItemsOf(call.elements))
        d == k - Len(ret.a)
        nb == Len(RetainedBefore)
    IN  /\ Len(arr) = nb + k + Len(RetainedAfter)
        /\ SubSeq(arr, 1, nb) = RetainedBefore
        /\ \A j \in 1..Len(RetainedAfter) :
             arr[nb + k + j] = Binding(RetainedAfter[j].idx + d, RetainedAfter[j].val)

\* C7: a negative howMany behaves exactly like howMany = 0, and a howMany
\* that is no integer removes every binding from index to the end.
C7_SpliceHowManyClamped ==
  SpliceDone =>
    /\ (call.howMany.isInt /\ call.howMany.n < 0) =>
         LET r0 == Splice(call.pre, call.index, IntArg(0), call.elements)
         IN  arr = r0.arr /\ ret.a = r0.result
    /\ (~call.howMany.isInt) =>
         /\ Vals(ret.a) = Vals(SelectSeq(call.pre, LAMBDA b : b.idx >= SpliceNormIndex))
         /\ Len(arr) = Len(RetainedBefore) + Len(ItemsOf(call.elements))

\* start and end of the slice call as the claims normalize them: undefined
\* is the default, negative counts back from len, clamped to [0, len].
NormStart ==
  LET len == ArrayLength(call.pre)
      v == IF call.start.undef THEN 0 ELSE call.start.n
  IN  Max(0, Min(len, IF v < 0 THEN len + v ELSE v))
NormEnd ==
  LET len == ArrayLength(call.pre)
      v == IF call.end.undef THEN len ELSE call.end.n
  IN  Max(0, Min(len, IF v < 0 THEN len + v ELSE v))

\* C8: slice returns, at dense indices from 0, exactly the values of the
\* receiver's bindings whose index i satisfies s <= i < e, in order.
C8_SliceInRangeOnly ==
  SliceDone =>
    ret.a = DenseOf(Vals(SelectSeq(call.pre,
                                   LAMBDA b : NormStart <= b.idx /\ b.idx < NormEnd)))

\* C9 as stated: for every array, the length of the slice is max(0, e - s).
C9_SliceLengthAnyArray ==
  SliceDone => ArrayLength(ret.a) = Max(0, NormEnd - NormStart)

\* C9 as amended: for every array without holes, the length of the slice is
\* max(0, e - s), with s and e the normalized and clamped start and end.
C9_SliceLengthDense ==
  (SliceDone /\ NoHoles(call.pre))
    => ArrayLength(ret.a) = Max(0, NormEnd - NormStart)

\* [1,2,3].slice(-2) returns [2,3].
C9_Witness ==
  /\ SliceDone /\ call.pre = DenseOf(<<1, 2, 3>>)
  /\ call.start = GivenArg(0 - 2) /\ call.end = UndefArg
  /\ ret.a = DenseOf(<<2, 3>>)

\* The values concat is to append for args[j], args[j+1], ...
RECURSIVE Flattened(_, _)
Flattened(args, j) ==
  IF j > Len(args) THEN <<>>
  ELSE (IF args[j].isArray THEN Vals(args[j].elems) ELSE <<args[j].val>>)
       \o Flattened(args, j + 1)

\* C10: concat returns the receiver's elements followed, for each argument
\* in call order, by the argument's own elements if it is an array, or by
\* the argument itself otherwise.
C10_ConcatFlattensEachArgument ==
  ConcatDone => Vals(ret.a) = Vals(call.pre) \o Flattened(call.args, 1)
\* A call of the constructor with the single integer argument n >= 0, in
\* which no allocation failed.
SingleCount ==
  /\ ConstructorDone /\ call.fail = 0
  /\ Len(call.args) = 1
  /\ IsInt(call.args[1].val) /\ call.args[1].val >= 0

\* C11: for every integer n >= 0, n = 0 included, the constructor called
\* with the single argument n returns an array, and its length is exactly n.
C11_ConstructorLength ==
  SingleCount =>
    /\ ret.kind = "array"
    /\ ArrayLength(ret.a) = call.args[1].val

\* The receiver is the array the constructor returned for the single
\* integer argument n > 0, no allocation having failed.
FromCount(n) ==
  /\ Len(hist) = 1 /\ hist[1].call.op = "constructor" /\ hist[1].call.fail = 0
  /\ Len(hist[1].call.args) = 1 /\ hist[1].call.args[1].val = n

\* C12: the array the constructor returns for a single integer n > 0 has no
\* enumerable elements: map and forEach call the callback zero times on it
\* and slice(0, n) returns an empty array.
C12_CountArrayHasNoElements ==
  \A n \in 1..MaxLen :
    FromCount(n) =>
      /\ (MapDone \/ ForEachDone) /\ ~err => cblog = <<>>
      /\ SliceDone /\ call.start = GivenArg(0) /\ call.end = GivenArg(n) =>
            ret = ArrayResult(<<>>)

\* The bindings of a are strictly ascending by index.
Ascending(a) == \A i \in 1..Len(a), j \in 1..Len(a) : i < j => a[i].idx < a[j].idx

\* The binding of a at index i, as a set: empty where a has a hole.
At(a, i) == {a[p].val : p \in {q \in 1..Len(a) : a[q].idx = i}}

MapReturned == MapDone /\ ~err /\ call.fail = 0

\* C13: when no allocation fails, map calls fn exactly once per binding of
\* the receiver, in ascending index order, with (value, index, receiver),
\* and returns a new array that has a binding at i exactly when the receiver
\* has one at i and fn returned a value for it; the binding holds what fn
\* returned, and holes stay holes.
C13_MapPerBinding ==
  MapReturned =>
    /\ cblog = [p \in 1..Len(call.pre) |->
                 <<call.pre[p].val, call.pre[p].idx, call.pre>>]
    /\ Ascending(call.pre)
    /\ arr = call.pre
    /\ ret.kind = "array"
    /\ Ascending(ret.a)
    /\ \A i \in 0..(MaxLen - 1) :
         At(ret.a, i) = {CallFn(call.fn, v, i) : v \in At(call.pre, i)} \ {Null}

\* map over a receiver with a hole and a function that returns a value for
\* some bindings only.
C13_Witness ==
  /\ MapReturned
  /\ ~NoHoles(call.pre)
  /\ Len(call.pre) >= 2
  /\ ret.a # <<>>
  /\ Len(ret.a) < Len(call.pre)

\* The call in progress or just made has an argument of the wrong shape.
ArgError ==
  \/ /\ call.op \in {"map", "forEach"}
     /\ call.fn = "notFunction" \/ call.this = "number"
  \/ /\ call.op = "sort"
     /\ call.cmp = "notFunction"

\* C14: map and forEach called with a function argument that is not
\* callable or a thisArg that is neither undefined nor an object, and sort
\* called with a compareFn that is neither undefined nor a function, fail
\* at once: the error slot is set, no value is returned, no callback has
\* been called and the receiver's bindings are as before the call.
C14_ArgErrorsFailFast ==
  ArgError =>
    /\ pc = "done"
    /\ err
    /\ ret = NoValue
    /\ cblog = <<>>
    /\ stack = <<>>
    /\ arr = call.pre

\* map with a callable function but a number as thisArg, on a receiver that
\* has bindings.
C14_Witness ==
  /\ MapDone /\ err
  /\ call.fn \in Functions /\ call.this = "number"
  /\ Len(call.pre) >= 2

\* C15: push with k arguments binds them at the indices len .. len+k-1
\* behind the bindings the array had, which stay as they were, and returns
\* len + k; with no argument it changes nothing and returns len.
C15_PushAppends ==
  PushDone =>
    LET len == ArrayLength(call.pre)
        k == Len(call.args)
    IN  /\ arr = call.pre \o [j \in 1..k |-> Binding(len + j - 1, call.args[j])]
        /\ ret = IntResult(len + k)

\* push of two values onto an array with a hole.
C15_Witness ==
  /\ PushDone
  /\ Len(call.args) = 2
  /\ ~NoHoles(call.pre)
  /\ ret = IntResult(ArrayLength(call.pre) + 2)

\* The n-th pop after a push of n >= 1 values has returned.
PushedAndPopped ==
  /\ PopDone
  /\ hist # <<>>
  /\ hist[1].call.op = "push"
  /\ Len(hist) = Len(hist[1].call.args)

\* C16: push of n values followed by n calls of pop returns the n values in
\* reverse order and leaves the array with the length and the bindings it
\* had before the push.
C16_PushThenPop ==
  PushedAndPopped =>
    LET n == Len(hist)
        pushed == hist[1].call.args
        popped == [i \in 1..n |-> IF i < n THEN hist[i + 1].ret ELSE ret]
    IN  /\ \A i \in 1..n : popped[i] = ValueResult(pushed[n + 1 - i])
        /\ arr = hist[1].call.pre
        /\ ArrayLength(arr) = ArrayLength(hist[1].call.pre)

\* Two different values pushed onto an array with a hole and popped again.
C16_Witness ==
  /\ PushedAndPopped
  /\ Len(hist) = 2
  /\ hist[1].call.args[1] # hist[1].call.args[2]
  /\ hist[1].call.args[1] # Null /\ hist[1].call.args[2] # Null
  /\ ~NoHoles(arr)

\* The array containers of a state: the receiver, a returned array and the
\* receiver as it was before the call.
Containers ==
  {arr} \cup (IF ret.kind = "array" THEN {ret.a} ELSE {})
        \cup (IF call.op # "none" THEN {call.pre} ELSE {})

\* C17: in every state reached by any sequence of calls of the constructor,
\* push, pop, splice (any index, any howMany, negative too, 0 to 6 items),
\* sort, map, slice and concat, the bindings of every array container,
\* receivers and returned arrays alike, are strictly ascending by index: no
\* index is bound twice and none is out of order.
C17_BindingsAscending ==
  \A a \in Containers : Ascending(a)

\* A splice with a negative howMany and items, on an array with a hole that
\* earlier calls built up from the constructor's result, has shifted
\* bindings and returned.
C17_Witness ==
  /\ SpliceDone
  /\ call.howMany.isInt /\ call.howMany.n < 0
  /\ call.elements[1] # Null
  /\ ~NoHoles(call.pre) /\ Len(call.pre) >= 2
  /\ Len(arr) > Len(call.pre)

\* C18: when an array operation has returned, on whichever path (normal,
\* argument error, allocation failure, interrupted sort), every lock and
\* every cursor it took has been released, the lock on the node it returns
\* apart.
C18_AllLocksReleased ==
  pc = "done" => locks = 0

\* An allocation failed in the call just made: in the constructor called
\* with a single integer > 0 (the only calls in which it allocates), or the
\* allocation of map's new array.
AllocationFailed ==
  \/ /\ ConstructorDone /\ call.fail # 0
     /\ Len(call.args) = 1 /\ IsInt(call.args[1].val) /\ call.args[1].val > 0
  \/ /\ MapDone /\ ~err /\ call.fail = 1

\* C19: when an allocation fails during an operation that allocates (here
\* the constructor and map), the operation returns no value, never a
\* partially built result, and the receiver is left as a valid array.
C19_AllocFailureReturnsNoValue ==
  AllocationFailed =>
    /\ ret = NoValue
    /\ Ascending(arr)

\* What a frame of sort still has to do once the flag has been seen, as a
\* number of steps, and the steps the whole call still has to do.
StepsLeft(at) ==
  CASE at = "low"   -> 5
    [] at = "entry" -> 3
    [] at = "test"  -> 2
    [] at = "after" -> 1
    [] at = "high"  -> 1
    [] OTHER        -> 0

RECURSIVE StackStepsLeft(_)
StackStepsLeft(i) ==
  IF i = 0 THEN 0 ELSE StepsLeft(stack[i].at) + StackStepsLeft(i - 1)

SortStepsLeft == StackStepsLeft(Len(stack)) + (IF pc = "sort" THEN 1 ELSE 0)

\* C20: sort reads the interrupt flag before it consumes each element.
\* Once a loop test has read the flag as set, and the flag stays set, no
\* pass of the sort, pending or started later, compares again or writes a
\* slot, and the sort returns: it is never stuck and each of its steps
\* brings the return nearer.
C20_InterruptStopsSort ==
  /\ [](seen =>
         /\ interrupted
         /\ \A i \in 1..Len(stack) : stack[i].at \notin {"compare", "move"}
         /\ pc = "sort" => ENABLED SortNext)
  /\ [][seen =>
         /\ arr' = arr
         /\ cblog' = cblog
         /\ SortStepsLeft' < SortStepsLeft]_vars

\* A sort with three frames' worth of work that saw the flag in a loop test
\* after it had already moved values, and has returned.
C20_Witness ==
  /\ SortDone /\ seen
  /\ Len(call.pre) >= 3
  /\ arr # call.pre
  /\ \E i \in 1..(Len(arr) - 1) : ~SortLeq(arr[i].val, arr[i + 1].val, call.cmp)

\* The number of elements the i-th activation of _jswrap_array_sort was
\* called with: the count made by jswrap_array_sort, or its caller's nlo or
\* nhigh.
FrameCount(i) ==
  IF i = 1 THEN Len(call.pre)
  ELSE IF stack[i - 1].at = "low" THEN stack[i - 1].nlo ELSE stack[i - 1].nhigh

\* The innermost activation is in its partition pass, or has just left it,
\* and the interrupt flag has not been set.
InPass ==
  /\ pc = "sort" /\ stack # <<>> /\ ~interrupted
  /\ Top.at \in {"test", "compare", "move", "after"}

\* C21: in a partition pass over the n >= 2 elements from head that is not
\* interrupted, the pivot value (the value at head when the pass began) is
\* at head + nlo, the nlo elements before it each compared less-or-equal to
\* it and the nhigh elements between it and the cursor did not; when the
\* pass ends nlo + nhigh = n - 1.  Each low step moves the pivot one slot
\* forward and puts the element just visited in the slot directly behind
\* it, changing no other slot but the cursor's.
C21_PartitionPass ==
  /\ [](InPass =>
         LET f == Top
             n == FrameCount(Len(stack))
         IN  /\ n >= 2
             /\ f.pivot = f.head + f.nlo
             /\ f.it = f.head + 1 + f.nlo + f.nhigh
             /\ GetValue(arr, f.pivot) = f.pivotValue
             /\ \A p \in f.head..(f.pivot - 1) :
                  SortLeq(arr[p].val, f.pivotValue, call.cmp)
             /\ \A p \in (f.pivot + 1)..(f.it - 1) :
                  ~SortLeq(arr[p].val, f.pivotValue, call.cmp)
             /\ f.at = "after" => f.n = 0 /\ f.nlo + f.nhigh = n - 1)
  /\ [][(pc = "sort" /\ stack # <<>> /\ Top.at = "entry" /\ Top.n >= 2)
          => Top'.pivotValue = GetValue(arr, Top.head)]_stack
  /\ [][(pc = "sort" /\ stack # <<>> /\ Top.at = "move" /\ Top.leq)
          => /\ Top'.pivot = Top.pivot + 1
             /\ GetValue(arr', Top.pivot) = Top.itValue
             /\ GetValue(arr', Top.pivot + 1) = Top.pivotValue
             /\ Idxs(arr') = Idxs(arr)
             /\ \A p \in 1..Len(arr) :
                  p \notin {Top.pivot, Top.pivot + 1, Top.it} => arr'[p] = arr[p]]_stack

\* A pass of an inner activation that ended uninterrupted with elements on
\* both sides of the pivot.
C21_Witness ==
  /\ InPass /\ Top.at = "after"
  /\ Len(stack) >= 2
  /\ Top.nlo >= 1 /\ Top.nhigh >= 1

\* C22: sort changes only which value is bound at each binding.  At every
\* moment of the call, and after it whether or not it was interrupted, the
\* binding indices, the number of bindings and the array's length are those
\* from before the call; n counts the bindings, not the holes, and every
\* element visited is an existing binding.
C22_SortKeepsIndices ==
  call.op = "sort" =>
    /\ Idxs(arr) = Idxs(call.pre)
    /\ Len(arr) = Len(call.pre)
    /\ ArrayLength(arr) = ArrayLength(call.pre)
    /\ \A i \in 1..Len(stack) :
         /\ stack[i].at = "entry" /\ i = 1 => stack[i].n = Len(call.pre)
         /\ stack[i].at \in {"compare", "move"} => stack[i].it \in 1..Len(arr)
         /\ stack[i].at \in {"test", "compare", "move", "after", "low"} =>
              stack[i].pivot \in 1..Len(arr) /\ stack[i].pivotValue # Null

\* A sort of an array with holes that has moved values and returned.
C22_Witness ==
  /\ SortDone
  /\ ~NoHoles(call.pre)
  /\ Len(call.pre) >= 3
  /\ Vals(arr) # Vals(call.pre)

\* An upper bound on the steps a call of _jswrap_array_sort on n elements
\* takes, its recursive calls included.
RECURSIVE CallSteps(_)
CallSteps(n) == IF n < 2 THEN 1 ELSE CallSteps(n - 1) + 3 * n + 3

\* An upper bound on the steps the i-th activation still takes, the
\* recursive calls it has yet to make included.
FrameSteps(i) ==
  LET f == stack[i]
      rest == 4 + CallSteps(FrameCount(i) - 1)
  IN  CASE f.at = "entry"   -> CallSteps(f.n)
        [] f.at = "test"    -> 3 * (f.n - 1) + 1 + rest
        [] f.at = "compare" -> 3 * (f.n - 1) + 3 + rest
        [] f.at = "move"    -> 3 * (f.n - 1) + 2 + rest
        [] f.at = "after"   -> 3 + CallSteps(f.nlo) + CallSteps(f.nhigh)
        [] f.at = "low"     -> 2 + CallSteps(f.nhigh)
        [] OTHER            -> 1

RECURSIVE StackSteps(_)
StackSteps(i) == IF i = 0 THEN 0 ELSE FrameSteps(i) + StackSteps(i - 1)

SortSteps == StackSteps(Len(stack)) + (IF pc = "sort" THEN 1 ELSE 0)

\* sort has returned once it has begun.
SortReturns == (pc = "sort") ~> (pc = "done")

\* C23: for every array and every comparator whose calls return, sort
\* returns.  Every recursive call of _jswrap_array_sort is made on strictly
\* fewer elements than its caller has (nlo + nhigh <= n - 1), a call with
\* n < 2 returns at once, a sort that has not returned can always take a
\* step, and every step it takes lowers a bound on the steps left.
C23_SortTerminates ==
  /\ [](pc = "sort" =>
         /\ ENABLED SortStep
         /\ \A i \in 1..Len(stack) :
              /\ stack[i].at # "entry" =>
                   stack[i].nlo + stack[i].nhigh <= FrameCount(i) - 1
              /\ i > 1 => FrameCount(i) < FrameCount(i - 1))
  /\ [][(pc = "sort" /\ stack # <<>> /\ Top.at = "entry" /\ Top.n < 2)
          => stack' = Pop]_stack
  /\ [][SortStep => SortSteps' < SortSteps /\ SortSteps' >= 0]_vars

\* A sort of four or more elements, not in order before, has returned in
\* order without being interrupted.
C23_Witness ==
  /\ SortDone /\ ~interrupted
  /\ Len(call.pre) >= 4
  /\ call.cmp = "desc"
  /\ \A i \in 1..(Len(arr) - 1) : arr[i].val >= arr[i + 1].val
  /\ \E i \in 1..(Len(call.pre) - 1) : call.pre[i].val < call.pre[i + 1].val

\* ------------------------------------------------------------ video events
\* No two neighbours of the queue are the same event, and the first is
\* videoStarted.
Alternate(q) ==
  /\ q # <<>> => q[1] = "videoStarted"
  /\ \A i \in 1..(Len(q) - 1) : q[i] # q[i + 1]

\* Number of videoStopped events in the queue.
Stops(q) == Cardinality({i \in 1..Len(q) : q[i] = "videoStopped"})

\* C24: with a Pip object to queue them on, videoStarted and videoStopped
\* events strictly alternate over any sequence of videoStart, videoStop, idle
\* and kill calls; a videoStopped event has been queued exactly once for each
\* time videoLoaded went from true to false and at no other time; and the
\* video file is open if and only if videoLoaded is true.
C24_EventsAlternate ==
  pip => /\ Alternate(events)
         /\ Stops(events) = unloads
         /\ videoFile = "open" <=> videoLoaded

\* C25: in jswrap_pb_videoFrame, whatever videoStreamLen is, no read asks for
\* more than VIDEO_BUFFER_SIZE bytes in videoBuffer (videoStreamBufferLen at
\* the first read, leftInStream + len at a refill), and videoStreamBufferLen
\* never exceeds VIDEO_BUFFER_SIZE.
C25_ReadsFitBuffer ==
  /\ requested <= VIDEO_BUFFER_SIZE
  /\ videoStreamBufferLen <= VIDEO_BUFFER_SIZE

====
